---- MODULE Spec2Model ----
(***************************************************************************)
(* A model of the cursor-meter extension (src/src/extension.ts, lines      *)
(* 1-335, with src/src/api.ts): the module-level state of the extension,   *)
(* the host's timers and secret store, and one action per handler or per   *)
(* resumption of an awaited call.  Time is counted in seconds.             *)
(***************************************************************************)
EXTENDS Integers, Sequences, FiniteSets, Bags, TLC

\* ------------------------------------------------------------------ bounds
\* Asynchronous invocations (refreshUsage, fetchLastEvent, set-token) in flight.
MaxTasks == 2
\* Advances of the clock in one behaviour.
MaxAdvances == 2
\* Post-edit timers pending at the same time.
MaxEditTimers == 2

\* ------------------------------------------------------- program constants
\* 5 * 60 * 1000 ms
EVENT_CACHE_DURATION == 300
\* setTimeout(..., 2000) in debouncedRefresh
DEBOUNCE_DELAY == 2
\* setTimeout(..., 3000) in the document-change listener
EDIT_FETCH_DELAY == 3
\* setInterval(..., 30 * 60 * 1000)
REFRESH_INTERVAL == 1800

VARIABLES
  phase,              \* "inactive", "active" (activate() has run), "deactivated"
  secret,             \* context.secrets[TOKEN_STORAGE_KEY]; <<>> when absent
  text,               \* statusBarItem.text
  tooltip,            \* statusBarItem.tooltip
  cachedLastEvent,    \* the module variable of that name; NoEvent when undefined
  lastEventFetchTime, \* the module variable of that name
  refreshTimer,       \* the handle: "undefined", "live" (the newest pending timer), "dead"
  refreshTimers,      \* the host's pending intervals of setupRefreshTimer: their next deadlines
  debounceTimer,      \* the handle, as refreshTimer
  debounceTimers,     \* the host's pending timeouts of debouncedRefresh: their deadlines
  fetchTimers,        \* the host's pending 3-second timeouts of the change listener
  tasks,              \* bag of the asynchronous invocations suspended at an await
  now,                \* Date.now(), in seconds
  advances,           \* how often the clock has advanced
  lastEditTime,       \* observation: time of the last edit notification, -1 before any
  debouncedSinceEdit, \* observation: refreshes the debounce timer started since that edit
  lastStoreTime,      \* observation: time at which the cache entry was last stored, -1 before
  ev                  \* observation: the step that led to this state

vars == <<phase, secret, text, tooltip, cachedLastEvent, lastEventFetchTime,
          refreshTimer, refreshTimers, debounceTimer, debounceTimers, fetchTimers,
          tasks, now, advances, lastEditTime, debouncedSinceEdit, lastStoreTime, ev>>

\* ------------------------------------------------------------------ values
None == <<>>

\* What the user may do with the input box: dismiss it, or submit a text.
PromptInputs ==
  { [cancelled |-> TRUE, text |-> <<>>],
    [cancelled |-> FALSE, text |-> <<>>],
    [cancelled |-> FALSE, text |-> <<" ">>],
    [cancelled |-> FALSE, text |-> <<"a">>],
    [cancelled |-> FALSE, text |-> <<" ", "b", " ">>] }

RECURSIVE TrimStart(_)
TrimStart(s) == IF s # <<>> /\ Head(s) = " " THEN TrimStart(Tail(s)) ELSE s

RECURSIVE TrimEnd(_)
TrimEnd(s) ==
  IF s # <<>> /\ s[Len(s)] = " " THEN TrimEnd(SubSeq(s, 1, Len(s) - 1)) ELSE s

\* String.prototype.trim
Trim(s) == TrimEnd(TrimStart(s))

\* Usage events the events endpoint may return as the first element.  An event
\* without tokenUsage makes createUsageTooltip throw a TypeError.
NoEvent == [id |-> 0, hasTokenUsage |-> TRUE]
Events ==
  { [id |-> 1, hasTokenUsage |-> TRUE],
    [id |-> 2, hasTokenUsage |-> TRUE],
    [id |-> 3, hasTokenUsage |-> FALSE] }

\* Outcomes of fetchUsageEvents: a parsed body with its usageEventsDisplay
\* (empty, or its first element), or a rejection: a non-2xx status, a body that
\* does not parse, or a transport error.
EventsResolved(empty, first) ==
  [kind |-> "ok", status |-> 200, empty |-> empty, first |-> first]
EventsRejected(k, status) ==
  [kind |-> k, status |-> status, empty |-> TRUE, first |-> NoEvent]

EventsResponses ==
  { EventsResolved(TRUE, NoEvent) }
    \cup { EventsResolved(FALSE, e) : e \in Events }
    \cup { EventsRejected("http", 401), EventsRejected("http", 500),
           EventsRejected("parse", 200), EventsRejected("network", 0) }

\* Bodies of a 2xx summary response.  shape "ok" is the declared
\* UsageSummaryResponse; the other shapes are malformed.
Body(shape, enabled, used, limit, onDemand) ==
  [shape |-> shape, enabled |-> enabled, used |-> used, limit |-> limit,
   onDemand |-> onDemand, odUsed |-> 10, odLimit |-> 20]

SummaryBodies ==
  { Body("ok", TRUE, 595, 40000, "absent"),
    Body("ok", TRUE, 7, 0, "enabled"),
    Body("ok", TRUE, 23, 80, "disabled"),
    Body("ok", FALSE, 5, 100, "absent"),
    Body("ok", FALSE, 5, 100, "disabled"),
    Body("ok", FALSE, 5, 100, "enabled"),
    Body("noPlan", FALSE, 0, 0, "absent"),
    \* plan.enabled is a truthy non-boolean such as "yes"
    Body("enabledNotBool", TRUE, 5, 100, "absent"),
    \* plan.used is not a number
    Body("usedNotNum", TRUE, 0, 100, "absent") }

\* Outcomes of fetchUsageSummary: resolve(parsed), or reject(new Error(...)).
\* has401 says whether the text put into the error message (the first 100
\* characters of the body, or the parser's message) contains "401".
Resolved(b) == [kind |-> "ok", status |-> 200, has401 |-> FALSE, body |-> b]
Rejected(k, status, has401) ==
  [kind |-> k, status |-> status, has401 |-> has401,
   body |-> Body("noPlan", FALSE, 0, 0, "absent")]

SummaryResponses ==
  { Resolved(b) : b \in SummaryBodies }
    \cup { Rejected("http", s, h) : s \in {401, 500}, h \in BOOLEAN }
    \cup { Rejected("parse", 200, h) : h \in BOOLEAN }
    \cup { Rejected("network", 0, FALSE) }

\* statusBarItem.text
NoText ==
  [kind |-> "none", msg |-> "", numeric |-> TRUE, used |-> 0, limit |-> 0, pct10 |-> 0]
\* `$(error) Cursor Meter: ${message}`
ErrorText(message) ==
  [kind |-> "error", msg |-> message, numeric |-> TRUE, used |-> 0, limit |-> 0,
   pct10 |-> 0]
\* `Cursor Meter: ${used}/${limit} (${percentage}%)`, percentage = pct10 / 10
UsageText(used, limit, pct10) ==
  [kind |-> "usage", msg |-> "", numeric |-> TRUE, used |-> used, limit |-> limit,
   pct10 |-> pct10]
\* the same template when used / limit is NaN: `.../... (NaN%)`
NaNText(limit) ==
  [kind |-> "usage", msg |-> "", numeric |-> FALSE, used |-> 0, limit |-> limit,
   pct10 |-> 0]

\* statusBarItem.tooltip
NoTooltip == [kind |-> "none", event |-> NoEvent]
Placeholder == [kind |-> "placeholder", event |-> NoEvent]
EventTooltip(e) == [kind |-> "event", event |-> e]

\* --------------------------------------------------------- pure functions
\* limit > 0 ? ((used / limit) * 100).toFixed(1) : '0.0', in tenths of a
\* percent.  toFixed(1) yields the tenth nearest to the double it is given; when
\* used / limit * 100 lies exactly between two tenths the binary rounding error
\* of the two floating-point operations decides (23/80 renders 28.7, 1/16 renders
\* 6.3), so both neighbours are possible there.
Percentage(used, limit) ==
  IF limit > 0
    THEN LET q == (used * 1000) \div limit
             r == (used * 1000) % limit
         IN  IF 2 * r < limit THEN {q}
             ELSE IF 2 * r > limit THEN {q + 1}
             ELSE {q, q + 1}
    ELSE {0}

\* createUsageTooltip throws a TypeError on event.tokenUsage.totalCents when the
\* event has no tokenUsage.
TooltipThrows(event) == event # NoEvent /\ ~event.hasTokenUsage

createUsageTooltip(event) ==
  IF event = NoEvent THEN Placeholder ELSE EventTooltip(event)

\* Mutant: only the body text is searched, not the status line.
Includes401InBody(resp) == resp.kind \in {"http", "parse"} /\ resp.has401

\* error.message.includes('401') for the errors fetchUsageSummary rejects with:
\* `HTTP ${statusCode}: ${data.substring(0, 100)}`, `Failed to parse response:
\* ${error}`, or the transport's error.
Includes401(resp) ==
  \/ resp.kind = "http" /\ (resp.status = 401 \/ resp.has401)
  \/ resp.kind = "parse" /\ resp.has401

\* updateStatusBar(used, limit): the text is assigned first, then the tooltip
\* is rebuilt from cachedLastEvent, which may throw.
updateStatusBar(used, limit, numeric) ==
  { [text |-> t,
     tooltip |-> IF TooltipThrows(cachedLastEvent) THEN tooltip
                 ELSE createUsageTooltip(cachedLastEvent),
     threw |-> TooltipThrows(cachedLastEvent)] :
    t \in IF numeric THEN { UsageText(used, limit, p) : p \in Percentage(used, limit) }
          ELSE { NaNText(limit) } }

\* Mutant: plan.enabled is not tested, a disabled plan is rendered like an
\* enabled one.
AfterSummaryUntested(resp) ==
  LET failed(tip, del) ==
        [text |-> ErrorText("Refresh failed"), tooltip |-> tip, del |-> del]
  IN  IF resp.kind # "ok" THEN { failed(tooltip, Includes401(resp)) }
      ELSE IF resp.body.shape = "noPlan" THEN { failed(tooltip, FALSE) }
      ELSE { IF r.threw THEN failed(r.tooltip, FALSE)
             ELSE [text |-> r.text, tooltip |-> r.tooltip, del |-> FALSE] :
             r \in updateStatusBar(resp.body.used, resp.body.limit,
                                   resp.body.shape # "usedNotNum") }

\* Mutant: a text that has been set is not overwritten by a later outcome.
AfterSummaryFirstWins(resp) ==
  LET keep(t) == IF text = NoText THEN t ELSE text
      failed(tip, del) ==
        [text |-> keep(ErrorText("Refresh failed")), tooltip |-> tip, del |-> del]
  IN  IF resp.kind # "ok" THEN { failed(tooltip, Includes401(resp)) }
      ELSE IF resp.body.shape = "noPlan" THEN { failed(tooltip, FALSE) }
      ELSE IF resp.body.enabled
        THEN { IF r.threw THEN failed(r.tooltip, FALSE)
               ELSE [text |-> keep(r.text), tooltip |-> r.tooltip, del |-> FALSE] :
               r \in updateStatusBar(resp.body.used, resp.body.limit,
                                     resp.body.shape # "usedNotNum") }
        ELSE { [text |-> keep(ErrorText("Plan disabled")), tooltip |-> tooltip,
                del |-> FALSE] }

\* Mutant: after deactivate() the outcome is dropped.
AfterSummaryDiscarded(resp) ==
  LET failed(tip, del) ==
        [text |-> ErrorText("Refresh failed"), tooltip |-> tip, del |-> del]
  IN  IF phase = "deactivated"
        THEN { [text |-> text, tooltip |-> tooltip, del |-> FALSE] }
      ELSE IF resp.kind # "ok" THEN { failed(tooltip, Includes401(resp)) }
      ELSE IF resp.body.shape = "noPlan" THEN { failed(tooltip, FALSE) }
      ELSE IF resp.body.enabled
        THEN { IF r.threw THEN failed(r.tooltip, FALSE)
               ELSE [text |-> r.text, tooltip |-> r.tooltip, del |-> FALSE] :
               r \in updateStatusBar(resp.body.used, resp.body.limit,
                                     resp.body.shape # "usedNotNum") }
        ELSE { [text |-> ErrorText("Plan disabled"), tooltip |-> tooltip,
                del |-> FALSE] }

\* The part of refreshUsage after `await fetchUsageSummary(token)`: what the
\* status bar shows and whether the stored token is deleted.
AfterSummary(resp) ==
  LET failed(tip, del) ==
        [text |-> ErrorText("Refresh failed"), tooltip |-> tip, del |-> del]
  IN  IF resp.kind # "ok" THEN { failed(tooltip, Includes401(resp)) }
      ELSE IF resp.body.shape = "noPlan" THEN { failed(tooltip, FALSE) }
      ELSE IF resp.body.enabled
        THEN { IF r.threw THEN failed(r.tooltip, FALSE)
               ELSE [text |-> r.text, tooltip |-> r.tooltip, del |-> FALSE] :
               r \in updateStatusBar(resp.body.used, resp.body.limit,
                                     resp.body.shape # "usedNotNum") }
        ELSE { [text |-> ErrorText("Plan disabled"), tooltip |-> tooltip,
                del |-> FALSE] }

\* Mutant: the text is stored and returned as entered.
promptForTokenUntrimmed(input) ==
  IF ~input.cancelled /\ input.text # <<>> THEN input.text ELSE None

\* promptForToken: the token it stores and returns, None for undefined.
promptForToken(input) ==
  IF ~input.cancelled /\ Trim(input.text) # <<>> THEN Trim(input.text) ELSE None

\* Mutant: the token is not tested, the request is sent with undefined.
refreshUsageTokenUntested(token) == [text |-> text, request |-> TRUE]

\* refreshUsage after `await getToken(context)`: without a token the text is
\* set to 'No token' and the function returns, otherwise the summary request is
\* sent.
refreshUsageToken(token) ==
  IF token = None THEN [text |-> ErrorText("No token"), request |-> FALSE]
  ELSE [text |-> text, request |-> TRUE]

\* ------------------------------------------------------------------- tasks
RefreshTask(cont) ==
  [kind |-> "refresh", pc |-> "getSecret", cont |-> cont, token |-> None,
   t0 |-> 0, force |-> FALSE]
FetchTask(force) ==
  [kind |-> "fetch", pc |-> "getSecret", cont |-> "none", token |-> None,
   t0 |-> now, force |-> force]
SetTokenTask ==
  [kind |-> "setToken", pc |-> "prompt", cont |-> "none", token |-> None,
   t0 |-> 0, force |-> FALSE]

One(t) == SetToBag({t})
Running == BagCardinality(tasks)

\* Mutant: the age in seconds compared with the duration as if in milliseconds.
CacheFreshUnits(force) ==
  ~force /\ cachedLastEvent # NoEvent
         /\ (now - lastEventFetchTime) * 1000 < EVENT_CACHE_DURATION

\* The cache test at the head of fetchLastEvent.
CacheFresh(force) ==
  ~force /\ cachedLastEvent # NoEvent
         /\ (now - lastEventFetchTime) < EVENT_CACHE_DURATION

\* Mutant: the force argument is not consulted.
fetchLastEventUnforced(force) ==
  IF CacheFresh(FALSE) THEN EmptyBag ELSE One(FetchTask(force))

\* fetchLastEvent(context, force) up to its first await: the invocations it
\* leaves suspended (none when it returns from the cache).
fetchLastEvent(force) ==
  IF CacheFresh(force) THEN EmptyBag ELSE One(FetchTask(force))

\* Mutant: the outcome of the request is stored whether or not it succeeded.
StoresEventUnchecked(resp) == TRUE

\* fetchLastEvent after `await fetchUsageEvents(...)`: the first element is
\* stored when the request resolved with a non-empty usageEventsDisplay; a
\* rejection goes to the catch, which only logs.
StoresEvent(resp) == resp.kind = "ok" /\ ~resp.empty

\* ------------------------------------------------------------------ timers
\* Mutant: clearing a handle cancels nothing.
ClearedNothing(handle, pending) == pending

\* clearTimeout / clearInterval of a handle: only a live handle names a pending
\* timer, the one armed last.
Cleared(handle, pending) ==
  IF handle = "live" THEN SubSeq(pending, 1, Len(pending) - 1) ELSE pending

AfterClear(handle) == IF handle = "undefined" THEN "undefined" ELSE "dead"

\* setupRefreshTimer: the pending intervals afterwards.
setupRefreshTimer ==
  Append(Cleared(refreshTimer, refreshTimers), now + REFRESH_INTERVAL)

\* Mutant: the pending timeout is not cleared before the new one is armed.
debouncedRefreshUncleared == Append(debounceTimers, now + DEBOUNCE_DELAY)

\* Mutant: a pending timeout is kept, so the delay runs from the first edit.
debouncedRefreshLeading ==
  IF debounceTimer = "live" THEN debounceTimers
  ELSE Append(debounceTimers, now + DEBOUNCE_DELAY)

\* debouncedRefresh: the pending debounce timeouts afterwards.
debouncedRefresh ==
  Append(Cleared(debounceTimer, debounceTimers), now + DEBOUNCE_DELAY)

\* Mutant: a pending post-edit timeout is replaced by the new one.
postEditFetchCoalesced == <<now + EDIT_FETCH_DELAY>>

\* The setTimeout of the document-change listener: one more pending timeout,
\* whose handle is not kept.
postEditFetch == Append(fetchTimers, now + EDIT_FETCH_DELAY)

Deadlines ==
  { refreshTimers[i] : i \in DOMAIN refreshTimers }
    \cup { debounceTimers[i] : i \in DOMAIN debounceTimers }
    \cup { fetchTimers[i] : i \in DOMAIN fetchTimers }

Remove(seq, i) == SubSeq(seq, 1, i - 1) \o SubSeq(seq, i + 1, Len(seq))

TimerVars == <<refreshTimer, refreshTimers, debounceTimer, debounceTimers, fetchTimers>>
CacheVars == <<cachedLastEvent, lastEventFetchTime, lastStoreTime>>
ClockVars == <<now, advances>>
EditObs == <<lastEditTime, debouncedSinceEdit>>

\* ----------------------------------------------------------------- actions
Init ==
  /\ phase = "inactive"
  /\ secret \in {None, <<"a">>}
  /\ text = NoText
  /\ tooltip = NoTooltip
  /\ cachedLastEvent = NoEvent
  /\ lastEventFetchTime = 0
  /\ refreshTimer = "undefined"
  /\ refreshTimers = <<>>
  /\ debounceTimer = "undefined"
  /\ debounceTimers = <<>>
  /\ fetchTimers = <<>>
  /\ tasks = EmptyBag
  /\ now = 0
  /\ advances = 0
  /\ lastEditTime = -1
  /\ debouncedSinceEdit = 0
  /\ lastStoreTime = -1
  /\ ev = [op |-> "init"]

\* An invocation of refreshUsage returns to its caller: the manual refresh
\* command goes on to fetchLastEvent(context, true), activate() to
\* setupRefreshTimer(context).
Complete(t) ==
  /\ tasks' = IF t.cont = "fetch" THEN (tasks (-) One(t)) (+) fetchLastEvent(TRUE)
              ELSE tasks (-) One(t)
  /\ IF t.cont = "timer"
       THEN /\ refreshTimers' = setupRefreshTimer
            /\ refreshTimer' = "live"
       ELSE UNCHANGED <<refreshTimer, refreshTimers>>
  /\ UNCHANGED <<debounceTimer, debounceTimers, fetchTimers>>

\* activate(): the status bar item is created, the commands and listeners are
\* registered, and the initial refreshUsage runs to its first await.
Activate ==
  /\ phase = "inactive"
  /\ Running < MaxTasks
  /\ phase' = "active"
  /\ tooltip' = createUsageTooltip(cachedLastEvent)
  /\ tasks' = tasks (+) One(RefreshTask("timer"))
  /\ ev' = [op |-> "activate"]
  /\ UNCHANGED <<secret, text, TimerVars, CacheVars, ClockVars, EditObs>>

\* activate() has returned: its initial refreshUsage and setupRefreshTimer are
\* done.
Activated == phase = "active" /\ \A t \in BagToSet(tasks) : t.cont # "timer"

\* deactivate(), after which the host disposes the subscriptions.  The host
\* deactivates an extension only once its activate() has returned.
Deactivate ==
  /\ Activated
  /\ phase' = "deactivated"
  /\ refreshTimers' = Cleared(refreshTimer, refreshTimers)
  /\ refreshTimer' = AfterClear(refreshTimer)
  /\ debounceTimers' = Cleared(debounceTimer, debounceTimers)
  /\ debounceTimer' = AfterClear(debounceTimer)
  /\ ev' = [op |-> "deactivate"]
  /\ UNCHANGED <<secret, text, tooltip, fetchTimers, tasks, CacheVars, ClockVars,
                 EditObs>>

\* onDidChangeTextDocument
Edit ==
  /\ phase = "active"
  /\ Len(fetchTimers) < MaxEditTimers
  /\ debounceTimers' = debouncedRefresh
  /\ debounceTimer' = "live"
  /\ fetchTimers' = postEditFetch
  /\ lastEditTime' = now
  /\ debouncedSinceEdit' = 0
  /\ ev' = [op |-> "edit"]
  /\ UNCHANGED <<phase, secret, text, tooltip, refreshTimer, refreshTimers, tasks,
                 CacheVars, ClockVars>>

\* onDidSaveTextDocument
Save ==
  /\ phase = "active"
  /\ Running + 2 <= MaxTasks
  /\ tasks' = (tasks (+) One(RefreshTask("none"))) (+) fetchLastEvent(TRUE)
  /\ ev' = [op |-> "save"]
  /\ UNCHANGED <<phase, secret, text, tooltip, TimerVars, CacheVars, ClockVars,
                 EditObs>>

\* the command cursor-meter.refresh (also the status bar item's click)
RefreshCommand ==
  /\ phase = "active"
  /\ Running < MaxTasks
  /\ tasks' = tasks (+) One(RefreshTask("fetch"))
  /\ ev' = [op |-> "refreshCommand"]
  /\ UNCHANGED <<phase, secret, text, tooltip, TimerVars, CacheVars, ClockVars,
                 EditObs>>

\* the command cursor-meter.setToken, up to its input box
SetTokenCommand ==
  /\ phase = "active"
  /\ Running < MaxTasks
  /\ tasks' = tasks (+) One(SetTokenTask)
  /\ ev' = [op |-> "setTokenCommand"]
  /\ UNCHANGED <<phase, secret, text, tooltip, TimerVars, CacheVars, ClockVars,
                 EditObs>>

\* A call fetchLastEvent(context) with the default force = false.  No handler of
\* the extension makes one (every call site passes true); this is the caller the
\* cache is written for.
LazyFetch ==
  /\ phase = "active"
  /\ Running < MaxTasks
  /\ tasks' = tasks (+) fetchLastEvent(FALSE)
  /\ ev' = [op |-> "fetchLastEvent", force |-> FALSE, fresh |-> CacheFresh(FALSE)]
  /\ UNCHANGED <<phase, secret, text, tooltip, TimerVars, CacheVars, ClockVars,
                 EditObs>>

\* The debounce timeout fires: refreshUsage(context).
DebounceFire ==
  \E i \in DOMAIN debounceTimers :
    /\ debounceTimers[i] <= now
    /\ Running < MaxTasks
    /\ debounceTimers' = Remove(debounceTimers, i)
    /\ debounceTimer' = IF i = Len(debounceTimers) /\ debounceTimer = "live"
                          THEN "dead" ELSE debounceTimer
    /\ tasks' = tasks (+) One(RefreshTask("none"))
    /\ debouncedSinceEdit' = debouncedSinceEdit + 1
    /\ ev' = [op |-> "debounceFire"]
    /\ UNCHANGED <<phase, secret, text, tooltip, refreshTimer, refreshTimers,
                   fetchTimers, CacheVars, ClockVars, lastEditTime>>

\* The periodic interval fires: refreshUsage(context); it stays armed.
PeriodicFire ==
  \E i \in DOMAIN refreshTimers :
    /\ refreshTimers[i] <= now
    /\ Running < MaxTasks
    /\ refreshTimers' = [refreshTimers EXCEPT ![i] = @ + REFRESH_INTERVAL]
    /\ tasks' = tasks (+) One(RefreshTask("none"))
    /\ ev' = [op |-> "periodicFire"]
    /\ UNCHANGED <<phase, secret, text, tooltip, refreshTimer, debounceTimer,
                   debounceTimers, fetchTimers, CacheVars, ClockVars, EditObs>>

\* A 3-second post-edit timeout fires: fetchLastEvent(context, true).
EditFetchFire ==
  \E i \in DOMAIN fetchTimers :
    /\ fetchTimers[i] <= now
    /\ Running < MaxTasks
    /\ fetchTimers' = Remove(fetchTimers, i)
    /\ tasks' = tasks (+) fetchLastEvent(TRUE)
    /\ ev' = [op |-> "editFetchFire"]
    /\ UNCHANGED <<phase, secret, text, tooltip, refreshTimer, refreshTimers,
                   debounceTimer, debounceTimers, CacheVars, ClockVars, EditObs>>

\* getToken resumes from `await context.secrets.get(...)`: with a stored token
\* the caller issues its request, otherwise the input box opens.
GetTokenRead ==
  \E t \in BagToSet(tasks) :
    /\ t.pc = "getSecret"
    /\ tasks' = (tasks (-) One(t)) (+)
                  One(IF secret # None THEN [t EXCEPT !.pc = "http", !.token = secret]
                      ELSE [t EXCEPT !.pc = "prompt"])
    /\ ev' = [op |-> "getToken", kind |-> t.kind, force |-> t.force,
              stored |-> secret]
    /\ UNCHANGED <<phase, secret, text, tooltip, TimerVars, CacheVars, ClockVars,
                   EditObs>>

\* The input box of promptForToken is answered or dismissed.
PromptAnswerOf(inputs) ==
  \E t \in BagToSet(tasks), input \in inputs :
    LET token == promptForToken(input) IN
    /\ t.pc = "prompt"
    /\ secret' = IF token # None THEN token ELSE secret
    /\ ev' = [op |-> "prompt", kind |-> t.kind, force |-> t.force, token |-> token,
              cont |-> IF token = None /\ t.kind = "refresh" THEN t.cont ELSE "-",
              input |-> input]
    /\ IF t.kind = "refresh"
         THEN LET r == refreshUsageToken(token) IN
              /\ text' = r.text
              /\ IF r.request
                   THEN /\ tasks' = (tasks (-) One(t)) (+)
                                      One([t EXCEPT !.pc = "http", !.token = token])
                        /\ UNCHANGED TimerVars
                   ELSE Complete(t)
         ELSE /\ tasks' =
                   IF token = None THEN tasks (-) One(t)
                   ELSE (tasks (-) One(t)) (+)
                          One(IF t.kind = "setToken" THEN RefreshTask("none")
                              ELSE [t EXCEPT !.pc = "http", !.token = token])
              /\ UNCHANGED <<text, TimerVars>>
    /\ UNCHANGED <<phase, tooltip, CacheVars, ClockVars, EditObs>>

\* refreshUsage resumes from `await fetchUsageSummary(token)`.
SummaryResponseOf(responses) ==
  \E t \in BagToSet(tasks), resp \in responses :
    \E o \in AfterSummary(resp) :
      /\ t.kind = "refresh" /\ t.pc = "http"
      /\ text' = o.text
      /\ tooltip' = o.tooltip
      /\ ev' = [op |-> "summary", resp |-> resp, token |-> t.token,
                cont |-> IF o.del THEN "-" ELSE t.cont]
      /\ IF o.del
           THEN /\ secret' = None
                /\ tasks' = (tasks (-) One(t)) (+) One([t EXCEPT !.pc = "deleting"])
                /\ UNCHANGED TimerVars
           ELSE /\ UNCHANGED secret
                /\ Complete(t)
      /\ UNCHANGED <<phase, CacheVars, ClockVars, EditObs>>

\* refreshUsage resumes from `await context.secrets.delete(...)` and returns.
DeleteDone ==
  \E t \in BagToSet(tasks) :
    /\ t.pc = "deleting"
    /\ Complete(t)
    /\ ev' = [op |-> "deleted", cont |-> t.cont]
    /\ UNCHANGED <<phase, secret, text, tooltip, CacheVars, ClockVars, EditObs>>

\* fetchLastEvent resumes from `await fetchUsageEvents(token, ..., 1)`.
EventsResponseOf(responses) ==
  \E t \in BagToSet(tasks), resp \in responses :
    /\ t.kind = "fetch" /\ t.pc = "http"
    /\ tasks' = tasks (-) One(t)
    /\ ev' = [op |-> "events", resp |-> resp, force |-> t.force, t0 |-> t.t0]
    /\ IF StoresEvent(resp)
         THEN /\ cachedLastEvent' = resp.first
              /\ lastEventFetchTime' = t.t0
              /\ lastStoreTime' = now
              /\ tooltip' = IF TooltipThrows(resp.first) THEN tooltip
                             ELSE createUsageTooltip(resp.first)
         ELSE UNCHANGED <<CacheVars, tooltip>>
    /\ UNCHANGED <<phase, secret, text, TimerVars, ClockVars, EditObs>>

\* Time passes.  A timeout fires when it is due, so the clock does not pass the
\* deadline of a pending timer.
ToNextTimer == { d - now : d \in { x \in Deadlines : x > now } }

AdvanceBy(steps) ==
  \E d \in steps :
    /\ advances < MaxAdvances
    /\ \A x \in Deadlines : now + d <= x
    /\ now' = now + d
    /\ advances' = advances + 1
    /\ ev' = [op |-> "advance"]
    /\ UNCHANGED <<phase, secret, text, tooltip, TimerVars, tasks, CacheVars, EditObs>>

PromptAnswer == PromptAnswerOf(PromptInputs)
SummaryResponse == SummaryResponseOf(SummaryResponses)
EventsResponse == EventsResponseOf(EventsResponses)
Advance == AdvanceBy({1, EVENT_CACHE_DURATION - 1} \cup ToNextTimer)

\* The whole program under every input.
Next ==
  \/ Activate
  \/ Deactivate
  \/ Edit
  \/ Save
  \/ RefreshCommand
  \/ SetTokenCommand
  \/ DebounceFire
  \/ PeriodicFire
  \/ EditFetchFire
  \/ GetTokenRead
  \/ PromptAnswer
  \/ SummaryResponse
  \/ DeleteDone
  \/ EventsResponse
  \/ Advance

Spec == Init /\ [][Next]_vars

\* ------------------------------------------------------- checked scenarios
\* The product of all events and all inputs is beyond exhaustive search, so
\* each property is checked under the events and inputs it is about.

\* A summary that renders; a well-formed event or a failed fetch; an input box
\* dismissed or answered with a token.
CoreSummaryResponses == { Resolved(Body("ok", TRUE, 595, 40000, "absent")) }
CoreEventsResponses ==
  { EventsResolved(FALSE, [id |-> 1, hasTokenUsage |-> TRUE]),
    EventsRejected("network", 0) }
CorePromptInputs ==
  { [cancelled |-> TRUE, text |-> <<>>], [cancelled |-> FALSE, text |-> <<"a">>] }

SummaryOk == SummaryResponseOf(CoreSummaryResponses)
EventsArrive == EventsResponseOf(CoreEventsResponses)
PromptClosed == PromptAnswerOf(CorePromptInputs)
Tick == AdvanceBy({1} \cup ToNextTimer)

\* Refreshing and authentication: the commands, the save listener and every
\* response of both endpoints, at one instant.
NextRefresh ==
  \/ Activate
  \/ Save
  \/ RefreshCommand
  \/ SetTokenCommand
  \/ GetTokenRead
  \/ PromptClosed
  \/ SummaryResponse
  \/ DeleteDone
  \/ EventsResponse

SpecRefresh == Init /\ [][NextRefresh]_vars

\* The event cache around the 5-minute boundary: unforced calls with a stored
\* credential (SpecCache), forced calls with and without one (SpecForced).
WaitForCache == AdvanceBy({1, EVENT_CACHE_DURATION - 1})

NextCache ==
  \/ Activate
  \/ RefreshCommand
  \/ LazyFetch
  \/ GetTokenRead
  \/ SummaryOk
  \/ EventsArrive
  \/ WaitForCache

InitStored == Init /\ secret # None

SpecCache == InitStored /\ [][NextCache]_vars

NextForced ==
  \/ Activate
  \/ RefreshCommand
  \/ GetTokenRead
  \/ PromptClosed
  \/ SummaryOk
  \/ EventsArrive
  \/ WaitForCache

SpecForced == Init /\ [][NextForced]_vars

\* Timers: edits, the three kinds of timer and the clock.
NextTimers ==
  \/ Activate
  \/ Deactivate
  \/ Edit
  \/ DebounceFire
  \/ PeriodicFire
  \/ EditFetchFire
  \/ GetTokenRead
  \/ PromptClosed
  \/ SummaryOk
  \/ EventsArrive
  \/ Tick

SpecTimers == Init /\ [][NextTimers]_vars

\* The input box under every answer: the set-token command, and the refresh and
\* forced fetch of a save, with and without a stored credential.
NextPrompt ==
  \/ Activate
  \/ Save
  \/ SetTokenCommand
  \/ GetTokenRead
  \/ PromptAnswer
  \/ SummaryOk
  \/ EventsArrive

SpecPrompt == Init /\ [][NextPrompt]_vars

\* Overlapping refreshes: the initial refresh of activate() and those of the
\* refresh command, answered in any order with a success, a disabled plan or a
\* failure.
OverlapSummaryResponses ==
  { Resolved(Body("ok", TRUE, 595, 40000, "absent")),
    Resolved(Body("ok", FALSE, 5, 100, "absent")),
    Rejected("http", 500, FALSE) }

SummaryArrives == SummaryResponseOf(OverlapSummaryResponses)

NextOverlap ==
  \/ Activate
  \/ RefreshCommand
  \/ GetTokenRead
  \/ SummaryArrives
  \/ EventsArrive

SpecOverlap == InitStored /\ [][NextOverlap]_vars

\* Replacing the token while a refresh is in flight: the set-token command
\* answered with a new token or dismissed, and summaries answered with a
\* success or with HTTP 401.
ReplacementInputs ==
  { [cancelled |-> TRUE, text |-> <<>>],
    [cancelled |-> FALSE, text |-> <<" ", "b", " ">>] }
AuthSummaryResponses ==
  { Resolved(Body("ok", TRUE, 595, 40000, "absent")), Rejected("http", 401, FALSE) }

TokenEntered == PromptAnswerOf(ReplacementInputs)
SummaryAuth == SummaryResponseOf(AuthSummaryResponses)

NextReplace ==
  \/ Activate
  \/ SetTokenCommand
  \/ GetTokenRead
  \/ TokenEntered
  \/ SummaryAuth
  \/ DeleteDone

SpecReplace == Init /\ [][NextReplace]_vars

\* -------------------------------------------------------------- properties
\* The step called fetchLastEvent(context, true): the save listener, a post-edit
\* timeout, or the manual refresh command after its refreshUsage returned.
ForcedCall(e) ==
  \/ e.op \in {"save", "editFetchFire"}
  \/ e.op \in {"summary", "deleted", "prompt"} /\ e.cont = "fetch"

\* This step left a new forced invocation of fetchLastEvent at getToken.
ForcedCallStarted ==
  \E t \in BagToSet(tasks') :
    /\ t.kind = "fetch" /\ t.force /\ t.pc = "getSecret" /\ t.t0 = now
    /\ CopiesIn(t, tasks') > CopiesIn(t, tasks)

\* An invocation of fetchLastEvent has its request in flight with this token.
RequestInFlight(token) ==
  \E t \in BagToSet(tasks) : t.kind = "fetch" /\ t.pc = "http" /\ t.token = token

\* C1 as stated: a call fetchLastEvent(force = false) made less than the TTL
\* after the moment a fetch succeeded and stored its event starts no request and
\* leaves the cache entry alone.
C1_FreshSinceSuccess ==
  [][(/\ ev'.op = "fetchLastEvent" /\ ~ev'.force
      /\ lastStoreTime >= 0
      /\ now - lastStoreTime < EVENT_CACHE_DURATION)
     => (tasks' = tasks /\ UNCHANGED CacheVars)]_vars

\* C1 amended: a call fetchLastEvent(force = false) made while an event is
\* cached and less than the TTL has passed since lastEventFetchTime (the time at
\* which the call that fetched the entry began, not the time its response
\* arrived) starts no request and leaves the event and its fetch time unchanged.
C1_FreshSinceFetchTime ==
  [][(/\ ev'.op = "fetchLastEvent" /\ ~ev'.force
      /\ cachedLastEvent # NoEvent
      /\ now - lastEventFetchTime < EVENT_CACHE_DURATION)
     => (tasks' = tasks /\ UNCHANGED CacheVars)]_vars

\* An unforced call was answered from the cache in the last second of its TTL.
C1_Witness ==
  /\ ev.op = "fetchLastEvent" /\ ~ev.force /\ ev.fresh
  /\ now - lastEventFetchTime = EVENT_CACHE_DURATION - 1

\* C2 as stated: no call fetchLastEvent(force = true) returns without having
\* issued its request, not even when no credential is stored.
C2_ForcedAlwaysRequests ==
  ~(ev.op = "prompt" /\ ev.kind = "fetch" /\ ev.force /\ ev.token = None)

\* C2 amended: every call fetchLastEvent(force = true) bypasses the cache
\* whatever the age of its entry, and issues the last-events request whenever
\* getToken yields a token, stored or entered at the prompt.
C2_ForcedBypassesCache ==
  /\ [][ForcedCall(ev') => ForcedCallStarted]_vars
  /\ [](ev.op = "getToken" /\ ev.kind = "fetch" /\ ev.force /\ ev.stored # None
          => RequestInFlight(ev.stored))
  /\ [](ev.op = "prompt" /\ ev.kind = "fetch" /\ ev.force /\ ev.token # None
          => RequestInFlight(ev.token))

\* A forced call made while the cache entry is fresh has its request in flight.
C2_Witness ==
  /\ ev.op = "getToken" /\ ev.kind = "fetch" /\ ev.force /\ ev.stored # None
  /\ cachedLastEvent # NoEvent
  /\ \E t \in BagToSet(tasks) :
       /\ t.kind = "fetch" /\ t.pc = "http"
       /\ t.t0 - lastEventFetchTime < EVENT_CACHE_DURATION

\* The last step was refreshUsage handling this kind of summary outcome.
SummaryStep == ev.op = "summary"
Http401 == SummaryStep /\ ev.resp.kind = "http" /\ ev.resp.status = 401
WellFormed == SummaryStep /\ ev.resp.kind = "ok" /\ ev.resp.body.shape = "ok"
Malformed == SummaryStep /\ ev.resp.kind = "ok" /\ ev.resp.body.shape # "ok"

\* C3: when the summary fetch of refreshUsage is answered with HTTP 401, the
\* stored credential is deleted in the step that handles the rejection (before
\* that refresh returns), and a getToken that finds nothing stored opens the
\* input box.
C3_AuthFailureDeletes ==
  /\ Http401 => secret = None
  /\ (ev.op = "getToken" /\ secret = None)
       => \E t \in BagToSet(tasks) : t.pc = "prompt" /\ t.kind = ev.kind

\* A refresh that sent a stored token was answered 401 and the token is gone.
C3_Witness ==
  /\ Http401 /\ ev.token # None /\ secret = None
  /\ text = ErrorText("Refresh failed")

\* C4: the stored credential is deleted only by a step that handles a summary
\* fetch rejected with HTTP status 401.
C4_DeletedOnlyOn401 ==
  [][(secret # None /\ secret' = None)
     => (ev'.op = "summary" /\ ev'.resp.kind = "http" /\ ev'.resp.status = 401)]_vars

\* C5: a 2xx summary of malformed shape ends in the text 'Refresh failed'.
C5_MalformedFails == Malformed => text = ErrorText("Refresh failed")

\* C6: with the plan disabled and on-demand enabled the text shows the on-demand
\* usage, used/limit (pct%).
C6_OnDemandAlone ==
  (WellFormed /\ ~ev.resp.body.enabled /\ ev.resp.body.onDemand = "enabled")
    => /\ text.kind = "usage"
       /\ text.used = ev.resp.body.odUsed /\ text.limit = ev.resp.body.odLimit
       /\ text.pct10 \in Percentage(ev.resp.body.odUsed, ev.resp.body.odLimit)

\* C7: with the plan disabled and on-demand disabled or absent, the text is the
\* error 'Plan disabled' and refreshUsage returns to its caller in that step.
C7_PlanDisabled ==
  (WellFormed /\ ~ev.resp.body.enabled
     /\ ev.resp.body.onDemand \in {"disabled", "absent"})
    => /\ text = ErrorText("Plan disabled")
       /\ ev.cont # "-"

\* Such a summary was handled, for on-demand absent.
C7_Witness ==
  /\ WellFormed /\ ~ev.resp.body.enabled /\ ev.resp.body.onDemand = "absent"
  /\ text = ErrorText("Plan disabled")

\* pct10 tenths of a percent is used / limit * 100 rounded to one decimal.
Rounded(used, limit, pct10) ==
  IF limit > 0
    THEN /\ 2 * (pct10 * limit - 1000 * used) <= limit
         /\ 2 * (1000 * used - pct10 * limit) <= limit
    ELSE pct10 = 0

\* C8: after a refresh whose summary has plan.enabled = true, the text is
\* used/limit (p%), p being used / limit * 100 rounded to one decimal, 0.0 for
\* limit = 0.
C8_UsageRendered ==
  (WellFormed /\ ev.resp.body.enabled)
    => /\ text.kind = "usage" /\ text.numeric
       /\ text.used = ev.resp.body.used /\ text.limit = ev.resp.body.limit
       /\ Rounded(text.used, text.limit, text.pct10)

\* C9: at most one periodic timer and at most one debounce timer are pending.
C9_OneTimerEach == Len(refreshTimers) <= 1 /\ Len(debounceTimers) <= 1

\* A second edit came less than 2 seconds after the first, with the periodic
\* timer armed.
C9_Witness ==
  /\ ev.op = "edit" /\ Len(fetchTimers) = 2
  /\ fetchTimers[2] - fetchTimers[1] < DEBOUNCE_DELAY
  /\ Len(debounceTimers) = 1 /\ Len(refreshTimers) = 1

\* The debounced refresh starts only 2 seconds after the last edit, and at most
\* once per edit.
DebounceTiming ==
  /\ ev.op = "debounceFire" => now = lastEditTime + DEBOUNCE_DELAY
  /\ debouncedSinceEdit <= 1

EditWindowOver == lastEditTime >= 0 /\ now > lastEditTime + DEBOUNCE_DELAY

\* C10 as stated: a burst of edits starts exactly one debounced refreshUsage, 2
\* seconds after its last edit, and none earlier.
C10_ExactlyOne ==
  /\ DebounceTiming
  /\ EditWindowOver => debouncedSinceEdit = 1

\* C10 amended: a burst of edits starts at most one debounced refreshUsage, 2
\* seconds after its last edit and none earlier; it starts exactly one unless
\* deactivate() cancelled the timer within those 2 seconds.
C10_OneUnlessDeactivated ==
  /\ DebounceTiming
  /\ EditWindowOver => (debouncedSinceEdit = 1 \/ phase = "deactivated")

\* The debounced refresh of a burst of two edits one second apart has started.
C10_Witness ==
  /\ ev.op = "debounceFire" /\ debouncedSinceEdit = 1
  /\ fetchTimers = <<now, now + 1>>

\* C11: once deactivate() has returned, no periodic and no debounce timer is
\* pending, and neither of them starts a refreshUsage any more.
C11_TimersDisarmed ==
  phase = "deactivated"
    => /\ refreshTimers = <<>> /\ debounceTimers = <<>>
       /\ ev.op \notin {"debounceFire", "periodicFire"}

\* Both timers were armed when deactivate() ran, and the time at which the
\* debounce timer was due has passed without a debounced refresh.
C11_Witness ==
  /\ phase = "deactivated"
  /\ refreshTimer = "dead" /\ debounceTimer = "dead"
  /\ lastEditTime >= 0 /\ debouncedSinceEdit = 0
  /\ now > lastEditTime + DEBOUNCE_DELAY

\* The last step was fetchLastEvent handling the outcome of its request.
EventsStep == ev.op = "events"

\* C12: when the last-events request of fetchLastEvent fails (transport error,
\* non-2xx status, unparsable body), the cached event, its fetch time, the
\* status text, the tooltip and the stored credential stay as they were, and
\* that invocation of fetchLastEvent ends without anything else being started.
C12_FailureKeepsCache ==
  [][(ev'.op = "events" /\ ev'.resp.kind # "ok")
     => /\ UNCHANGED <<cachedLastEvent, lastEventFetchTime, text, tooltip, secret>>
        /\ BagCardinality(tasks') = BagCardinality(tasks) - 1]_vars

\* A last-events request was answered 401 while an event was cached and a
\* credential stored.
C12_Witness ==
  /\ EventsStep /\ ev.resp.kind = "http" /\ ev.resp.status = 401
  /\ cachedLastEvent # NoEvent /\ secret # None
  /\ text.kind = "usage"

\* C13: when the last-events request succeeds with an empty sequence or with a
\* first element that has no tokenUsage, the cache entry stays as it was (an
\* event without tokenUsage is never the cache entry) and the status text shows
\* 'Refresh failed'.
C13_MalformedRejected ==
  /\ cachedLastEvent.hasTokenUsage
  /\ (EventsStep /\ ev.resp.kind = "ok"
         /\ (ev.resp.empty \/ ~ev.resp.first.hasTokenUsage))
       => text = ErrorText("Refresh failed")

\* Invocations of refreshUsage waiting for the answer to their summary request.
SummaryRequests(bag) ==
  BagCardinality([t \in { u \in BagToSet(bag) : u.kind = "refresh" /\ u.pc = "http" }
                    |-> CopiesIn(t, bag)])

\* C14: when refreshUsage finds no credential stored and the input box yields no
\* token, the text becomes the error 'No token', no summary request is sent and
\* the credential store is left as it was.
C14_NoTokenStops ==
  [][(ev'.op = "prompt" /\ ev'.kind = "refresh" /\ ev'.token = None)
     => /\ text'.kind = "error" /\ text'.msg = "No token"
        /\ SummaryRequests(tasks') = SummaryRequests(tasks)
        /\ secret' = secret]_vars

\* The input box of a refresh was dismissed with nothing stored.
C14_Witness ==
  /\ ev.op = "prompt" /\ ev.kind = "refresh" /\ ev.token = None
  /\ secret = None /\ text = ErrorText("No token")
  /\ \A t \in BagToSet(tasks) : t.pc # "http"

\* C15: after refreshUsage has handled its summary outcome the text shows that
\* summary's used/limit when the outcome is a well-formed success with
\* plan.enabled = true, and an error when the request failed; a text once set
\* is never blank again.
C15_DisplayStates ==
  /\ []((WellFormed /\ ev.resp.body.enabled)
           => /\ text.kind = "usage"
              /\ text.used = ev.resp.body.used /\ text.limit = ev.resp.body.limit)
  /\ []((SummaryStep /\ ev.resp.kind # "ok") => text.kind = "error")
  /\ [][text # NoText => text' # NoText]_vars

\* The input box was dismissed, or answered with nothing but blanks.
NoAnswer(input) ==
  input.cancelled \/ \A i \in DOMAIN input.text : input.text[i] = " "

\* t is s without its leading and trailing blanks.
IsTrimOf(t, s) ==
  /\ t # <<>> /\ Head(t) # " " /\ t[Len(t)] # " "
  /\ \E i \in 0..Len(s) :
       /\ i + Len(t) <= Len(s)
       /\ SubSeq(s, i + 1, i + Len(t)) = t
       /\ \A k \in 1..Len(s) : (k <= i \/ k > i + Len(t)) => s[k] = " "

\* C16: an input box dismissed or answered with an empty or blank text leaves
\* the stored credential as it was and yields no token: getToken's caller gets
\* none, and the set-token command ends without starting a refresh.  Any other
\* answer is stored without its surrounding blanks, and that trimmed token is
\* what the caller goes on with.
C16_PromptStoresTrimmed ==
  [][ev'.op = "prompt"
     => IF NoAnswer(ev'.input)
          THEN /\ ev'.token = None
               /\ secret' = secret
               /\ \A t \in BagToSet(tasks') : CopiesIn(t, tasks') <= CopiesIn(t, tasks)
               /\ ev'.kind = "setToken"
                    => BagCardinality(tasks') = BagCardinality(tasks) - 1
          ELSE /\ IsTrimOf(ev'.token, ev'.input.text)
               /\ secret' = ev'.token
               /\ IF ev'.kind = "setToken"
                    THEN CopiesIn(RefreshTask("none"), tasks')
                           > CopiesIn(RefreshTask("none"), tasks)
                    ELSE \E t \in BagToSet(tasks') :
                           /\ t.kind = ev'.kind /\ t.pc = "http"
                           /\ t.token = ev'.token
                           /\ CopiesIn(t, tasks') > CopiesIn(t, tasks)]_vars

\* The set-token command was answered with a blank while a token was stored.
C16_Witness ==
  /\ ev.op = "prompt" /\ ev.kind = "setToken"
  /\ ~ev.input.cancelled /\ ev.input.text = <<" ">>
  /\ secret = <<"a">>
  /\ tasks = EmptyBag

\* The text that the handling of this summary outcome writes.
WrittenBy(resp) ==
  IF resp.kind # "ok" \/ resp.body.shape = "noPlan" THEN text = ErrorText("Refresh failed")
  ELSE IF ~resp.body.enabled THEN text = ErrorText("Plan disabled")
  ELSE IF TooltipThrows(cachedLastEvent) THEN text = ErrorText("Refresh failed")
  ELSE /\ text.kind = "usage"
       /\ text.used = resp.body.used /\ text.limit = resp.body.limit

\* C17: whenever refreshUsage has handled a summary outcome, the text is the one
\* that outcome writes, whatever the text was before and whichever of the
\* overlapping refreshes was started first: the outcome handled last wins.
C17_LastWriterWins == SummaryStep => WrittenBy(ev.resp)

\* The initial refresh of activate() was answered with a failure after a
\* refresh of the command, started later, had already returned: both have
\* completed and the text is that of the refresh started first.
C17_Witness ==
  /\ SummaryStep /\ ev.cont = "timer" /\ ev.resp.kind = "http"
  /\ text = ErrorText("Refresh failed")
  /\ \A t \in BagToSet(tasks) : t.kind = "fetch"
  /\ tasks # EmptyBag

\* Forced invocations of fetchLastEvent that began at the present time.
ForcedNow ==
  BagCardinality([t \in { u \in BagToSet(tasks) :
                            u.kind = "fetch" /\ u.force /\ u.t0 = now }
                    |-> CopiesIn(t, tasks)])

C20_FetchTimeMonotonic ==
  [][/\ lastEventFetchTime' >= lastEventFetchTime
     /\ (ev'.op = "events" /\ cachedLastEvent # NoEvent
           /\ cachedLastEvent' # cachedLastEvent)
          => ev'.t0 >= lastEventFetchTime]_vars

\* C21: refreshUsage deletes the stored credential only when the credential in
\* the store is the token its rejected request was sent with; a token stored by
\* the set-token command while that request was in flight is not deleted.
C21_DeletesOwnToken ==
  [][(secret # None /\ secret' = None)
     => (ev'.op = "summary" /\ ev'.token = secret)]_vars

\* Input boxes of promptForToken that are open.
OpenPrompts ==
  BagCardinality([t \in { u \in BagToSet(tasks) : u.pc = "prompt" }
                    |-> CopiesIn(t, tasks)])

\* C22: at most one input box of promptForToken is open at any time; a trigger
\* that finds no credential stored opens none while another is unanswered.
C22_OnePrompt == OpenPrompts <= 1

\* C23: once deactivate() has returned no timer of the extension fires any
\* more, not even the 3-second timeout of an edit made shortly before, so no
\* timer starts a request or an input box after it.
C23_NoTimerAfterDeactivate ==
  phase = "deactivated"
    => ev.op \notin {"editFetchFire", "debounceFire", "periodicFire"}
====
